---- MODULE Spec2Model ----
(***************************************************************************)
(* A model of nvmonitor.py: the GPU throttle monitor.  One process runs    *)
(* main(): GPUMonitor.__init__, GPUMonitor.run (the loop of                *)
(* update_display and time.sleep), and the finally block of run (cleanup   *)
(* and show_summary).  The environment is the metrics backend (the masks   *)
(* the devices report, read failures), the terminal size, the clock and    *)
(* SIGINT.                                                                 *)
(*                                                                         *)
(* A sample is modelled by its reasons mask; power, clock, utilisation and *)
(* temperature are carried by the code but decide nothing modelled here.   *)
(* A string built by " | ".join(...) is the sequence of its entries.       *)
(***************************************************************************)
EXTENDS Integers, Sequences, FiniteSets, TLC

VARIABLES
    args,           \* parse_args(): [gpus, duration, interval, csv]
    pc,             \* where main() is
    use_nvml,       \* Backend.use_nvml
    nvml_open,      \* NVML initialised and not yet shut down
    gpu_count,      \* GPUMonitor.gpu_count
    gpu_indices,    \* GPUMonitor.gpu_indices (a list)
    gpu_names,      \* the keys of GPUMonitor.gpu_names
    histories,      \* GPUMonitor.histories: index -> deque(maxlen=40)
    csvf,           \* GPUMonitor.csvf: "none" | "open" | "closed"
    csv_log,        \* the records written to the CSV file, header excluded
    start_time,     \* GPUMonitor.start_time
    stop_flag,      \* GPUMonitor.stop_flag
    handler,        \* whether signal.signal(SIGINT, ...) has run
    cursor_visible, \* the terminal's cursor
    term_height,    \* Terminal.height
    tick_now,       \* update_display's local `now`
    per_gpu,        \* update_display's local per_gpu
    idx,            \* position of the running for-loop in gpu_indices (1-based)
    compact_mode,   \* update_display's local compact_mode (FALSE before a render)
    frame,          \* the rows on the screen
    summary,        \* the per-device blocks show_summary has printed
    summary_tried,  \* show_summary's re-samples, in order: [gpu, ok]
    shutdown_log,   \* the steps of run's finally block, in order
    exc,            \* the exception in flight: "none" | "SampleFailed" | ...
    leave,          \* why the loop was left: "none" | "stop" | "deadline" | "error"
    exit_code,      \* the process's exit status, -1 while it runs
    clock,          \* time.time()
    hw_mask,        \* the reasons mask each device reports now
    hw_changes,     \* how often a device's mask has changed
    queried,        \* the indices passed to backend.name or backend.sample
    appended,       \* every flag appended to each history, in order
    ticks,          \* the calls of update_display
    rendered        \* the calls of update_display that reached the renderer

vars == << args, pc, use_nvml, nvml_open, gpu_count, gpu_indices, gpu_names,
           histories, csvf, csv_log, start_time, stop_flag, handler,
           cursor_visible, term_height, tick_now, per_gpu, idx, compact_mode,
           frame, summary, summary_tried, shutdown_log, exc, leave, exit_code,
           clock, hw_mask, hw_changes, queried, appended, ticks, rendered >>

(***************************************************************************)
(* Bounds of the model and constants of the program.                       *)
(***************************************************************************)
NumDevices == 3          \* devices the backend enumerates
MaxTicks == 2            \* ticks of a run without a deadline
MaxHwChanges == 1        \* changes of a device's mask during a run
HistTicks == 42          \* ticks of the long run that fills a history
HistoryCap == 40         \* deque(maxlen=40)
MiniGraphWidth == 20     \* the compact layout's graph
DefaultHeight == 24      \* shutil.get_terminal_size((80, 24))

Devices == 0 .. (NumDevices - 1)

\* The reason masks a device reports: the nine vendor bits 0x001 .. 0x100.
AllMasks == 0 .. 511
RunMasks == {4, 136}
HistMasks == {0, 8}

TermHeights == {7, 11}
DiagHeights == {6, DefaultHeight}

\* args.gpus split at its commas.
\* "0,0" names a device twice: nothing removes the repetition.
GpuArgs == { <<"0", "2">>, <<"1", "">>, <<"0", "7">>, <<"0", "0">> }
Timings == { <<0, 1>>, <<2, 1>>, <<3, 2>> }     \* duration, interval

\* run: deadline is None without a duration; no time is negative.
None == -1

(***************************************************************************)
(* Pure helpers.                                                           *)
(***************************************************************************)
RECURSIVE BitAnd(_, _)
BitAnd(a, b) ==
    IF a = 0 \/ b = 0 THEN 0
    ELSE (a % 2) * (b % 2) + 2 * BitAnd(a \div 2, b \div 2)

Min(a, b) == IF a < b THEN a ELSE b

Last(s) == s[Len(s)]

\* int(x) for the tokens used here.
IntOf(tok) ==
    CASE tok = "0" -> 0 [] tok = "1" -> 1 [] tok = "2" -> 2 [] tok = "3" -> 3
      [] tok = "4" -> 4 [] tok = "5" -> 5 [] tok = "6" -> 6 [] tok = "7" -> 7
      [] tok = "8" -> 8 [] tok = "9" -> 9

RECURSIVE SeqRange(_, _)
SeqRange(a, n) == IF n = 0 THEN <<>> ELSE <<a>> \o SeqRange(a + 1, n - 1)

RECURSIVE ParseTokens(_)
ParseTokens(toks) ==
    IF toks = <<>> THEN <<>>
    ELSE IF Head(toks) = "" THEN ParseTokens(Tail(toks))
    ELSE <<IntOf(Head(toks))>> \o ParseTokens(Tail(toks))

\* The same with args.gpus ignored: every device is watched.
WatchList_all(gpus, count) == SeqRange(0, count)

\* GPUMonitor.__init__: the watched indices.
WatchList(gpus, count) ==
    IF gpus = <<"all">> THEN SeqRange(0, count) ELSE ParseTokens(gpus)

SeqSet(s) == { s[k] : k \in 1 .. Len(s) }

\* The devices args.gpus names.  A device it does not name is never read, so
\* what it reports is left at 0.
Named(gpus) == SeqSet(WatchList(gpus, NumDevices))

(***************************************************************************)
(* get_problem_description: the entries of the " | "-joined string.        *)
(***************************************************************************)
PowerLimit == "POWER LIMIT: GPU wants more power but is limited by power delivery"
Overheating == "OVERHEATING: Hardware thermal protection activated"
Hot == "HOT: Driver thermal throttling"
Capped == "CAPPED: Software power limit reached"
Throttled == "THROTTLED: General hardware slowdown"
OkText == "OK: No throttling"

\* The same with the bits tested in numeric order: 0x0008 before 0x0004.
get_problem_description_numeric(mask) ==
    LET problems ==
            (IF BitAnd(mask, 128) # 0 THEN <<PowerLimit>> ELSE <<>>)
         \o (IF BitAnd(mask, 64) # 0 THEN <<Overheating>> ELSE <<>>)
         \o (IF BitAnd(mask, 32) # 0 THEN <<Hot>> ELSE <<>>)
         \o (IF BitAnd(mask, 8) # 0 THEN <<Throttled>> ELSE <<>>)
         \o (IF BitAnd(mask, 4) # 0 THEN <<Capped>> ELSE <<>>)
    IN  IF problems = <<>> THEN <<OkText>> ELSE problems

get_problem_description(mask) ==
    LET problems ==
            (IF BitAnd(mask, 128) # 0 THEN <<PowerLimit>> ELSE <<>>)
         \o (IF BitAnd(mask, 64) # 0 THEN <<Overheating>> ELSE <<>>)
         \o (IF BitAnd(mask, 32) # 0 THEN <<Hot>> ELSE <<>>)
         \o (IF BitAnd(mask, 4) # 0 THEN <<Capped>> ELSE <<>>)
         \o (IF BitAnd(mask, 8) # 0 THEN <<Throttled>> ELSE <<>>)
    IN  IF problems = <<>> THEN <<OkText>> ELSE problems

\* The same with 0x00EC, which counts CAPPED as throttled.
is_throttled_capped(mask) == IF BitAnd(mask, 236) # 0 THEN 1 ELSE 0

\* update_display: 1 if (mask & 0x00E8) else 0
is_throttled(mask) == IF BitAnd(mask, 232) # 0 THEN 1 ELSE 0

\* A plain list's append: nothing is evicted.
list_append(d, x) == Append(d, x)

\* collections.deque(maxlen=40).append
deque_append(d, x) ==
    IF Len(d) < HistoryCap THEN Append(d, x) ELSE Append(Tail(d), x)

\* `needle in problem`: the entries of the description in which each of the
\* words update_display looks for occurs as a substring.
EntriesContaining(needle) ==
    CASE needle = "OK:" -> {OkText}
      [] needle = "POWER LIMIT" -> {PowerLimit}
      [] needle = "OVERHEATING" -> {Overheating}
      [] needle = "HOT" -> {Hot}
      [] needle = "CAPPED" -> {Capped}

Contains(problem, needle) ==
    \E k \in 1 .. Len(problem) : problem[k] \in EntriesContaining(needle)

\* update_display, normal layout: the colour of the status line.
status_colour(problem) ==
    IF Contains(problem, "OK:") THEN "GREEN"
    ELSE IF Contains(problem, "POWER LIMIT") \/ Contains(problem, "OVERHEATING")
         THEN "RED"
    ELSE IF Contains(problem, "HOT") \/ Contains(problem, "CAPPED")
         THEN "YELLOW"
    ELSE "PLAIN"

\* The same with the lowest bit winning: CAP before HOT, THM and PWR.
compact_code_lowest(mask) ==
    IF BitAnd(mask, 4) # 0 THEN "CAP"
    ELSE IF BitAnd(mask, 32) # 0 THEN "HOT"
    ELSE IF BitAnd(mask, 64) # 0 THEN "THM"
    ELSE IF BitAnd(mask, 128) # 0 THEN "PWR"
    ELSE ""

\* update_display, compact layout: the problem code of a row.
compact_code(mask) ==
    IF BitAnd(mask, 128) # 0 THEN "PWR"
    ELSE IF BitAnd(mask, 64) # 0 THEN "THM"
    ELSE IF BitAnd(mask, 32) # 0 THEN "HOT"
    ELSE IF BitAnd(mask, 4) # 0 THEN "CAP"
    ELSE ""

Glyph(val) == IF val # 0 THEN "#" ELSE "."

Dots(n) == [k \in 1 .. n |-> "."]

\* update_display, compact layout: the last 20 samples, left-padded.
mini_graph(h) ==
    LET n == Min(Len(h), MiniGraphWidth)
        history_slice == SubSeq(h, Len(h) - n + 1, Len(h))
    IN  Dots(MiniGraphWidth - n) \o [k \in 1 .. n |-> Glyph(history_slice[k])]

\* update_display, normal layout: the whole history, left-padded to 40.
graph(h) == Dots(HistoryCap - Len(h)) \o [k \in 1 .. Len(h) |-> Glyph(h[k])]

\* The same with <= for <.
compact_layout_le(height, indices) == height <= Len(indices) * 4 + 3

\* update_display: compact_mode
compact_layout(height, indices) == height < Len(indices) * 4 + 3

compact_row(i, data, h) ==
    [gpu |-> i, graph |-> mini_graph(h), code |-> compact_code(data.mask)]

normal_row(i, data, h) ==
    LET problem == get_problem_description(data.mask)
    IN  [gpu |-> i, graph |-> graph(h), status |-> problem,
         colour |-> status_colour(problem)]

\* show_summary: the titles of one device's block.
summary_lines(mask) ==
    LET found ==
            (IF BitAnd(mask, 128) # 0 THEN <<"POWER BRAKE ACTIVE">> ELSE <<>>)
         \o (IF BitAnd(mask, 64) # 0 THEN <<"THERMAL THROTTLING">> ELSE <<>>)
         \o (IF BitAnd(mask, 32) # 0 THEN <<"SOFTWARE THERMAL LIMIT">> ELSE <<>>)
         \o (IF BitAnd(mask, 4) # 0 THEN <<"POWER CAP">> ELSE <<>>)
    IN  IF found = <<>> THEN <<"No problems detected">> ELSE found

\* update_display: one CSV record (timestamp, gpu, mask_hex, problems).
csv_record(now, i, data) ==
    [timestamp |-> now, gpu |-> i, mask |-> data.mask,
     problems |-> get_problem_description(data.mask)]

\* The same with a record written only for a throttled sample.
csv_rows_throttled(now, i, data) ==
    IF BitAnd(data.mask, 232) # 0 THEN << csv_record(now, i, data) >> ELSE << >>

\* update_display: what one sample adds to the CSV file.
csv_rows(now, i, data) == << csv_record(now, i, data) >>

\* run: deadline
deadline_of(start, duration) == IF duration > 0 THEN start + duration ELSE None

(***************************************************************************)
(* The state before main() constructs the monitor.                         *)
(***************************************************************************)
InitWith(configs, masks) ==
    /\ args \in configs
    /\ pc = "start"
    /\ use_nvml \in BOOLEAN
    /\ nvml_open = use_nvml
    /\ gpu_count = -1
    /\ gpu_indices = <<>>
    /\ gpu_names = {}
    /\ histories = <<>>
    /\ csvf = "none"
    /\ csv_log = <<>>
    /\ start_time = 0
    /\ stop_flag = FALSE
    /\ handler = FALSE
    /\ cursor_visible = TRUE
    /\ term_height = DefaultHeight
    /\ tick_now = 0
    /\ per_gpu = <<>>
    /\ idx = 1
    /\ compact_mode = FALSE
    /\ frame = <<>>
    /\ summary = <<>>
    /\ summary_tried = <<>>
    /\ shutdown_log = <<>>
    /\ exc = "none"
    /\ leave = "none"
    /\ exit_code = -1
    /\ clock = 0
    /\ \E named \in [Named(args.gpus) \cap Devices -> masks \cup {0}] :
          hw_mask = [d \in Devices |->
                        IF d \in DOMAIN named THEN named[d] ELSE 0]
    /\ hw_changes = 0
    /\ queried = {}
    /\ appended = <<>>
    /\ ticks = 0
    /\ rendered = 0

(***************************************************************************)
(* GPUMonitor.__init__, called by main().                                  *)
(***************************************************************************)
\* backend.device_count() raises: the message is printed and sys.exit(1).
init_count_fails ==
    /\ exit_code' = 1
    /\ pc' = "exited"
    /\ exc' = "SystemExit"
    /\ UNCHANGED << gpu_count, gpu_indices, gpu_names, histories, csvf,
                    start_time, handler, queried, appended, term_height >>

\* backend.name(list[f]) raises, for an index that does not exist or by a
\* read error: main() catches the exception and exits 1.
init_name_fails(list, f) ==
    /\ gpu_count' = NumDevices
    /\ gpu_indices' = list
    /\ queried' = queried \cup { list[k] : k \in 1 .. f }
    /\ exc' = "NameFailed"
    /\ exit_code' = 1
    /\ pc' = "exited"
    /\ UNCHANGED << gpu_names, histories, csvf, start_time, handler, appended,
                    term_height >>

\* open(args.csv, "w") raises: main() catches the exception and exits 1.
init_open_fails(list) ==
    /\ gpu_count' = NumDevices
    /\ gpu_indices' = list
    /\ queried' = queried \cup SeqSet(list)
    /\ gpu_names' = SeqSet(list)
    /\ histories' = [i \in SeqSet(list) |-> <<>>]
    /\ appended' = [i \in SeqSet(list) |-> <<>>]
    /\ exc' = "OpenFailed"
    /\ exit_code' = 1
    /\ pc' = "exited"
    /\ UNCHANGED << csvf, start_time, handler, term_height >>

init_succeeds(list, height) ==
    /\ term_height' = height
    /\ gpu_count' = NumDevices
    /\ gpu_indices' = list
    /\ queried' = queried \cup SeqSet(list)
    /\ gpu_names' = SeqSet(list)
    /\ histories' = [i \in SeqSet(list) |-> <<>>]
    /\ appended' = [i \in SeqSet(list) |-> <<>>]
    /\ csvf' = IF args.csv THEN "open" ELSE "none"
    /\ start_time' = clock
    /\ handler' = TRUE
    /\ pc' = "run"
    /\ UNCHANGED << exc, exit_code >>

GPUMonitor_init(heights) ==
    /\ pc = "start"
    /\ LET list == WatchList(args.gpus, NumDevices)
           valid == \A k \in 1 .. Len(list) : list[k] \in Devices
       IN  \/ init_count_fails
           \/ \E f \in 1 .. Len(list) :
                 /\ \A k \in 1 .. (f - 1) : list[k] \in Devices
                 /\ init_name_fails(list, f)
           \/ valid /\ args.csv /\ init_open_fails(list)
           \/ valid /\ \E height \in heights : init_succeeds(list, height)
    /\ UNCHANGED << args, use_nvml, nvml_open, csv_log, stop_flag,
                    cursor_visible, tick_now, per_gpu, idx, compact_mode, frame,
                    summary, summary_tried, shutdown_log, leave, clock, hw_mask,
                    hw_changes, ticks, rendered >>

\* SIGINT before signal.signal has installed the handler: KeyboardInterrupt,
\* which main() catches; it prints a line and returns.
KeyboardInterrupt ==
    /\ pc = "start"
    /\ ~handler
    /\ exc' = "KeyboardInterrupt"
    /\ exit_code' = 0
    /\ pc' = "exited"
    /\ UNCHANGED << args, use_nvml, nvml_open, gpu_count, gpu_indices,
                    gpu_names, histories, csvf, csv_log, start_time, stop_flag,
                    handler, cursor_visible, term_height, tick_now, per_gpu,
                    idx, compact_mode, frame, summary, summary_tried,
                    shutdown_log, leave, clock, hw_mask, hw_changes, queried,
                    appended, ticks, rendered >>

\* The same with the interrupt raised into a tick that is sampling, as
\* Python's default SIGINT handler does.
signal_handler_raises ==
    /\ handler
    /\ pc # "exited"
    /\ ~stop_flag
    /\ stop_flag' = TRUE
    /\ IF pc = "sample"
       THEN /\ exc' = "KeyboardInterrupt"
            /\ leave' = "error"
            /\ pc' = "cleanup"
       ELSE UNCHANGED << exc, leave, pc >>
    /\ UNCHANGED << args, use_nvml, nvml_open, gpu_count, gpu_indices,
                    gpu_names, histories, csvf, csv_log, start_time, handler,
                    cursor_visible, term_height, tick_now, per_gpu, idx,
                    compact_mode, frame, summary, summary_tried, shutdown_log,
                    exit_code, clock, hw_mask, hw_changes, queried, appended,
                    ticks, rendered >>

\* GPUMonitor._signal_handler
signal_handler ==
    /\ handler
    /\ pc # "exited"
    /\ ~stop_flag
    /\ stop_flag' = TRUE
    /\ UNCHANGED << args, pc, use_nvml, nvml_open, gpu_count, gpu_indices,
                    gpu_names, histories, csvf, csv_log, start_time, handler,
                    cursor_visible, term_height, tick_now, per_gpu, idx,
                    compact_mode, frame, summary, summary_tried, shutdown_log,
                    exc, leave, exit_code, clock, hw_mask, hw_changes, queried,
                    appended, ticks, rendered >>

(***************************************************************************)
(* GPUMonitor.run: the loop.                                               *)
(***************************************************************************)
\* run: self.term.hide_cursor(), before the try.
run_enter ==
    /\ pc = "run"
    /\ cursor_visible' = FALSE
    /\ pc' = "loop"
    /\ UNCHANGED << args, use_nvml, nvml_open, gpu_count, gpu_indices,
                    gpu_names, histories, csvf, csv_log, start_time, stop_flag,
                    handler, term_height, tick_now, per_gpu, idx, compact_mode,
                    frame, summary, summary_tried, shutdown_log, exc, leave,
                    exit_code, clock, hw_mask, hw_changes, queried, appended,
                    ticks, rendered >>

\* The same with > for >=.
loop_exit_gt(stop, deadline, now) ==
    IF stop THEN "stop"
    ELSE IF deadline # None /\ now > deadline THEN "deadline"
    ELSE "none"

\* run: whether the loop ends at this iteration, and why.
loop_exit(stop, deadline, now) ==
    IF stop THEN "stop"
    ELSE IF deadline # None /\ now >= deadline THEN "deadline"
    ELSE "none"

\* run: the head of the while loop; when the loop goes on, update_display
\* starts: it reads the time and the terminal's size.
run_loop(limit, heights) ==
    /\ pc = "loop"
    /\ LET why == loop_exit(stop_flag,
                            deadline_of(start_time, args.duration), clock)
       IN  IF why # "none"
           THEN /\ leave' = why
                /\ pc' = "cleanup"
                /\ UNCHANGED << tick_now, term_height, per_gpu, idx, ticks >>
           ELSE /\ ticks < limit
                /\ ticks' = ticks + 1
                /\ tick_now' = clock
                /\ \E height \in heights : term_height' = height
                /\ per_gpu' = <<>>
                /\ idx' = 1
                /\ pc' = "sample"
                /\ UNCHANGED leave
    /\ UNCHANGED << args, use_nvml, nvml_open, gpu_count, gpu_indices,
                    gpu_names, histories, csvf, csv_log, start_time, stop_flag,
                    handler, cursor_visible, compact_mode, frame, summary,
                    summary_tried, shutdown_log, exc, exit_code, clock, hw_mask,
                    hw_changes, queried, appended, rendered >>

\* The same with a default record (flag 0) kept for the device that failed.
sample_fails_default(i) ==
    /\ exc' = "SampleFailed"
    /\ leave' = "error"
    /\ pc' = "cleanup"
    /\ histories' = [histories EXCEPT ![i] = deque_append(@, 0)]
    /\ appended' = [appended EXCEPT ![i] = Append(@, 0)]
    /\ UNCHANGED << per_gpu, csv_log, idx >>

\* update_display: backend.sample(i) raises inside the for loop.  Nothing
\* catches it before run's finally block.
sample_fails(i) ==
    /\ exc' = "SampleFailed"
    /\ leave' = "error"
    /\ pc' = "cleanup"
    /\ UNCHANGED << per_gpu, histories, appended, csv_log, idx >>

\* The same with a failed write caught and the for loop going on.
sample_succeeds_swallow(i) ==
    LET data == [mask |-> hw_mask[i]]
        flag == is_throttled(data.mask)
    IN  /\ per_gpu' = [j \in (DOMAIN per_gpu) \cup {i} |->
                          IF j = i THEN data ELSE per_gpu[j]]
        /\ histories' = [histories EXCEPT ![i] = deque_append(@, flag)]
        /\ appended' = [appended EXCEPT ![i] = Append(@, flag)]
        /\ idx' = idx + 1
        /\ UNCHANGED << leave, pc >>
        /\ IF csvf = "none"
           THEN UNCHANGED << csv_log, exc >>
           ELSE \/ /\ csvf = "open"
                   /\ csv_log' = csv_log \o csv_rows(tick_now, i, data)
                   /\ UNCHANGED exc
                \/ /\ exc' = "LogWriteFailed"
                   /\ UNCHANGED csv_log

\* update_display: one pass of the for loop with a sample that succeeds.
sample_succeeds(i) ==
    LET data == [mask |-> hw_mask[i]]
        flag == is_throttled(data.mask)
    IN  /\ per_gpu' = [j \in (DOMAIN per_gpu) \cup {i} |->
                          IF j = i THEN data ELSE per_gpu[j]]
        /\ histories' = [histories EXCEPT ![i] = deque_append(@, flag)]
        /\ appended' = [appended EXCEPT ![i] = Append(@, flag)]
        /\ IF csvf = "none"
           THEN /\ idx' = idx + 1
                /\ UNCHANGED << csv_log, exc, leave, pc >>
           ELSE \/ /\ csvf = "open"
                   /\ csv_log' = csv_log \o csv_rows(tick_now, i, data)
                   /\ idx' = idx + 1
                   /\ UNCHANGED << exc, leave, pc >>
                \/ /\ exc' = "LogWriteFailed"
                   /\ leave' = "error"
                   /\ pc' = "cleanup"
                   /\ UNCHANGED << csv_log, idx >>

update_display_sample ==
    /\ pc = "sample"
    /\ idx <= Len(gpu_indices)
    /\ LET i == gpu_indices[idx]
       IN  /\ queried' = queried \cup {i}
           /\ \/ sample_succeeds(i)
              \/ sample_fails(i)
    /\ UNCHANGED << args, use_nvml, nvml_open, gpu_count, gpu_indices,
                    gpu_names, csvf, start_time, stop_flag, handler,
                    cursor_visible, term_height, tick_now, compact_mode, frame,
                    summary, summary_tried, shutdown_log, exit_code, clock,
                    hw_mask, hw_changes, ticks, rendered >>

\* update_display: the frame, after the for loop.
render_frame(compact, indices, data, hist) ==
    [k \in 1 .. Len(indices) |->
        IF compact
        THEN compact_row(indices[k], data[indices[k]], hist[indices[k]])
        ELSE normal_row(indices[k], data[indices[k]], hist[indices[k]])]

update_display_render ==
    /\ pc = "sample"
    /\ idx > Len(gpu_indices)
    /\ compact_mode' = compact_layout(term_height, gpu_indices)
    /\ frame' = render_frame(compact_mode', gpu_indices, per_gpu, histories)
    /\ rendered' = rendered + 1
    /\ pc' = "sleep"
    /\ UNCHANGED << args, use_nvml, nvml_open, gpu_count, gpu_indices,
                    gpu_names, histories, csvf, csv_log, start_time, stop_flag,
                    handler, cursor_visible, term_height, tick_now, per_gpu,
                    idx, summary, summary_tried, shutdown_log, exc, leave,
                    exit_code, clock, hw_mask, hw_changes, queried, appended,
                    ticks >>

\* run: time.sleep(self.args.interval).  Sampling and rendering take no time
\* here: the clock moves only while the loop sleeps.
run_sleep ==
    /\ pc = "sleep"
    /\ clock' = clock + args.interval
    /\ pc' = "loop"
    /\ UNCHANGED << args, use_nvml, nvml_open, gpu_count, gpu_indices,
                    gpu_names, histories, csvf, csv_log, start_time, stop_flag,
                    handler, cursor_visible, term_height, tick_now, per_gpu,
                    idx, compact_mode, frame, summary, summary_tried,
                    shutdown_log, exc, leave, exit_code, hw_mask, hw_changes,
                    queried, appended, ticks, rendered >>

(***************************************************************************)
(* GPUMonitor.run: the finally block.                                      *)
(***************************************************************************)
\* The same with backend.close() put off until the summary has been shown.
run_cleanup_backend_last ==
    /\ pc = "cleanup"
    /\ cursor_visible' = TRUE
    /\ frame' = <<>>
    /\ csvf' = IF csvf = "none" THEN "none" ELSE "closed"
    /\ shutdown_log' = <<"show_cursor", "clear_screen">>
                       \o (IF csvf = "none" THEN <<>> ELSE <<"csv_close">>)
    /\ idx' = 1
    /\ pc' = "summary"
    /\ UNCHANGED << args, use_nvml, nvml_open, gpu_count, gpu_indices,
                    gpu_names, histories, csv_log, start_time, stop_flag,
                    handler, term_height, tick_now, per_gpu, compact_mode,
                    summary, summary_tried, exc, leave, exit_code, clock,
                    hw_mask, hw_changes, queried, appended, ticks, rendered >>

run_cleanup ==
    /\ pc = "cleanup"
    /\ cursor_visible' = TRUE
    /\ frame' = <<>>
    /\ csvf' = IF csvf = "none" THEN "none" ELSE "closed"
    /\ nvml_open' = FALSE
    /\ shutdown_log' = <<"show_cursor", "clear_screen">>
                       \o (IF csvf = "none" THEN <<>> ELSE <<"csv_close">>)
                       \o <<"backend_close">>
    /\ idx' = 1
    /\ pc' = "summary"
    /\ UNCHANGED << args, use_nvml, gpu_count, gpu_indices, gpu_names,
                    histories, csv_log, start_time, stop_flag, handler,
                    term_height, tick_now, per_gpu, compact_mode, summary,
                    summary_tried, exc, leave, exit_code, clock, hw_mask,
                    hw_changes, queried, appended, ticks, rendered >>

\* Backend.sample after Backend.close: NVML, once shut down, raises on every
\* call; nvidia-smi is a fresh subprocess each time.
backend_usable == ~use_nvml \/ nvml_open

\* The same with `break` for `continue`.
summary_break(i) ==
    /\ summary_tried' = Append(summary_tried, [gpu |-> i, ok |-> FALSE])
    /\ summary' = summary
    /\ idx' = Len(gpu_indices) + 1

\* show_summary: backend.sample(i) raises; `continue`.
summary_skip(i) ==
    /\ summary_tried' = Append(summary_tried, [gpu |-> i, ok |-> FALSE])
    /\ summary' = summary
    /\ idx' = idx + 1

\* show_summary: the block of a device whose re-sample succeeds.
summary_block(i) ==
    /\ summary_tried' = Append(summary_tried, [gpu |-> i, ok |-> TRUE])
    /\ summary' = Append(summary,
                         [gpu |-> i, lines |-> summary_lines(hw_mask[i])])
    /\ idx' = idx + 1

\* The same with the re-sample recorded in the history as a tick's sample is.
show_summary_device_tracked ==
    /\ pc = "summary"
    /\ idx <= Len(gpu_indices)
    /\ LET i == gpu_indices[idx]
           flag == is_throttled(hw_mask[i])
       IN  /\ queried' = queried \cup {i}
           /\ \/ /\ summary_skip(i)
                 /\ UNCHANGED << histories, appended >>
              \/ /\ backend_usable
                 /\ summary_block(i)
                 /\ histories' = [histories EXCEPT ![i] = deque_append(@, flag)]
                 /\ appended' = [appended EXCEPT ![i] = Append(@, flag)]
    /\ UNCHANGED << args, pc, use_nvml, nvml_open, gpu_count, gpu_indices,
                    gpu_names, csvf, csv_log, start_time, stop_flag, handler,
                    cursor_visible, term_height, tick_now, per_gpu,
                    compact_mode, frame, shutdown_log, exc, leave, exit_code,
                    clock, hw_mask, hw_changes, ticks, rendered >>

\* show_summary: one pass of the for loop.
show_summary_device ==
    /\ pc = "summary"
    /\ idx <= Len(gpu_indices)
    /\ LET i == gpu_indices[idx]
       IN  /\ queried' = queried \cup {i}
           /\ \/ summary_skip(i)
              \/ backend_usable /\ summary_block(i)
    /\ UNCHANGED << args, pc, use_nvml, nvml_open, gpu_count, gpu_indices,
                    gpu_names, histories, csvf, csv_log, start_time, stop_flag,
                    handler, cursor_visible, term_height, tick_now, per_gpu,
                    compact_mode, frame, shutdown_log, exc, leave, exit_code,
                    clock, hw_mask, hw_changes, appended, ticks, rendered >>

\* The same with sys.exit(1) after every run.
exit_status_one(e) == 1

\* main: the exit status once run() has returned or raised.
exit_status(e) == IF e = "none" THEN 0 ELSE 1

\* show_summary returns, run's finally block ends, and main() either returns
\* or catches the exception of the tick and calls sys.exit(1).
show_summary_end ==
    /\ pc = "summary"
    /\ idx > Len(gpu_indices)
    /\ shutdown_log' = Append(shutdown_log, "summary")
    /\ exit_code' = exit_status(exc)
    /\ pc' = "exited"
    /\ UNCHANGED << args, use_nvml, nvml_open, gpu_count, gpu_indices,
                    gpu_names, histories, csvf, csv_log, start_time, stop_flag,
                    handler, cursor_visible, term_height, tick_now, per_gpu,
                    idx, compact_mode, frame, summary, summary_tried, exc,
                    leave, clock, hw_mask, hw_changes, queried, appended, ticks,
                    rendered >>

(***************************************************************************)
(* The devices.  A mask that changes between two reads is seen at the next *)
(* read whenever it changed, so it changes here while the loop sleeps or   *)
(* as the loop is left.                                                    *)
(***************************************************************************)
hw_change(masks, budget) ==
    /\ pc \in {"sleep", "cleanup"}
    /\ hw_changes < budget
    /\ \E d \in SeqSet(gpu_indices) : \E m \in masks \ {hw_mask[d]} :
          hw_mask' = [hw_mask EXCEPT ![d] = m]
    /\ hw_changes' = hw_changes + 1
    /\ UNCHANGED << args, pc, use_nvml, nvml_open, gpu_count, gpu_indices,
                    gpu_names, histories, csvf, csv_log, start_time, stop_flag,
                    handler, cursor_visible, term_height, tick_now, per_gpu,
                    idx, compact_mode, frame, summary, summary_tried,
                    shutdown_log, exc, leave, exit_code, clock, queried,
                    appended, ticks, rendered >>

(***************************************************************************)
(* Specifications.                                                         *)
(***************************************************************************)
Config(gpus, timing, csv) ==
    [gpus |-> gpus, duration |-> timing[1], interval |-> timing[2], csv |-> csv]

Configs ==
    { Config(g, t, c) : g \in GpuArgs, t \in Timings, c \in BOOLEAN }
    \cup { Config(<<"all">>, <<1, 1>>, TRUE) }

Init == InitWith(Configs, RunMasks)

Program(limit, heights) ==
    \/ GPUMonitor_init(heights)
    \/ run_enter
    \/ run_loop(limit, heights)
    \/ update_display_sample
    \/ update_display_render
    \/ run_sleep
    \/ run_cleanup
    \/ show_summary_device
    \/ show_summary_end

Next ==
    \/ Program(MaxTicks, TermHeights)
    \/ KeyboardInterrupt
    \/ signal_handler
    \/ hw_change(RunMasks, MaxHwChanges)

Spec == Init /\ [][Next]_vars

\* What main() does by itself, once started: every step but the signals and
\* the devices' changes.  A run without a deadline goes on until SIGINT.
Fairness == WF_vars(Program(MaxTicks, TermHeights))

FairConfigs ==
    { Config(g, t, c) : g \in { <<"1", "">>, <<"0", "2">> },
                        t \in Timings, c \in BOOLEAN }

FairInit == InitWith(FairConfigs, RunMasks)

FairSpec == FairInit /\ [][Next]_vars /\ Fairness

\* A long run on one device, which fills its history and evicts from it.
HistConfigs == { Config(<<"1", "">>, <<0, 1>>, c) : c \in BOOLEAN }

HistInit == InitWith(HistConfigs, HistMasks)

HistNext ==
    \/ Program(HistTicks, {DefaultHeight})
    \/ KeyboardInterrupt
    \/ signal_handler
    \/ hw_change(HistMasks, MaxHwChanges)

HistSpec == HistInit /\ [][HistNext]_vars

\* A run of one tick on one device that reports any of the masks.
DiagConfigs == { Config(<<"1", "">>, <<1, 1>>, c) : c \in BOOLEAN }

DiagInit == InitWith(DiagConfigs, AllMasks)

DiagNext ==
    \/ Program(MaxTicks, DiagHeights)
    \/ KeyboardInterrupt
    \/ signal_handler

DiagSpec == DiagInit /\ [][DiagNext]_vars

(***************************************************************************)
(* The monitor loop's state, read off main()'s position.                   *)
(***************************************************************************)
loop_state ==
    CASE pc \in {"loop", "sample", "sleep"} -> "RUNNING"
      [] pc \in {"cleanup", "summary"} -> "STOPPING"
      [] pc = "exited" /\ leave # "none" -> "TERMINATED"
      [] OTHER -> "NOT_RUNNING"

Records == { csv_log[k] : k \in 1 .. Len(csv_log) }

HasBit(m, b) == (m \div b) % 2 = 1

(***************************************************************************)
(* C1: a sample that fails for one watched device during a tick does not   *)
(* abort the run: the loop stays RUNNING and a later tick samples the      *)
(* device again.                                                           *)
(* The loop does not stay RUNNING: the exception of backend.sample leaves  *)
(* update_display and the while loop, and run's finally block begins.      *)
(***************************************************************************)
C1_SampleFailureKeepsRunning ==
    exc = "SampleFailed" => loop_state = "RUNNING"

(***************************************************************************)
(* C2: for every mask the diagnosis has an entry for a condition exactly   *)
(* when the condition's bit is set, the entries come in the order POWER    *)
(* LIMIT, OVERHEATING, HOT, CAPPED, THROTTLED, and the diagnosis is the    *)
(* single OK entry when none of the five bits is set.  Checked on every    *)
(* record of the CSV file, which holds a mask beside its diagnosis.        *)
(***************************************************************************)
DiagnosisOrder == << PowerLimit, Overheating, Hot, Capped, Throttled >>
DiagnosisBits == << 128, 64, 32, 4, 8 >>

DiagnosisOf(m, p) ==
    IF \A k \in 1 .. 5 : ~HasBit(m, DiagnosisBits[k])
    THEN p = << OkText >>
    ELSE /\ \A k \in 1 .. 5 :
              HasBit(m, DiagnosisBits[k])
                  <=> (\E j \in 1 .. Len(p) : p[j] = DiagnosisOrder[k])
         /\ \A j \in 1 .. Len(p) : \E k \in 1 .. 5 : p[j] = DiagnosisOrder[k]
         /\ \A j1, j2 \in 1 .. Len(p) : \A k1, k2 \in 1 .. 5 :
              (j1 < j2 /\ p[j1] = DiagnosisOrder[k1] /\ p[j2] = DiagnosisOrder[k2])
                  => k1 < k2

C2_Diagnosis == \A r \in Records : DiagnosisOf(r.mask, r.problems)

C2_Witness ==
    \E r \in Records :
        /\ r.mask = 172
        /\ r.problems = << PowerLimit, Hot, Capped, Throttled >>

(***************************************************************************)
(* C3: the flag appended to a device's history on a tick is 1 exactly when *)
(* the sampled mask has one of the bits 0x80, 0x40, 0x20, 0x08; a mask     *)
(* whose only diagnosis bit is 0x04 (CAPPED) is recorded as not throttled  *)
(* although its diagnosis is not OK.                                       *)
(***************************************************************************)
ThrottleBits == {128, 64, 32, 8}

C3_ThrottleFlag ==
    /\ \A i \in DOMAIN per_gpu :
          /\ Len(histories[i]) > 0
          /\ Last(histories[i]) \in {0, 1}
          /\ Last(histories[i]) = 1
                <=> (\E b \in ThrottleBits : HasBit(per_gpu[i].mask, b))
          /\ (HasBit(per_gpu[i].mask, 4)
                /\ \A b \in ThrottleBits : ~HasBit(per_gpu[i].mask, b))
                => Last(histories[i]) = 0
    /\ \A r \in Records :
          (HasBit(r.mask, 4) /\ \A b \in ThrottleBits : ~HasBit(r.mask, b))
              => r.problems = << Capped >>

C3_Witness ==
    /\ 1 \in DOMAIN per_gpu
    /\ per_gpu[1].mask = 4
    /\ histories[1] = << 0 >>
    /\ \E r \in Records : r.mask = 4 /\ r.problems # << OkText >>

(***************************************************************************)
(* C4: a history never holds more than 40 flags, and after N appends it    *)
(* holds the most recent min(N, 40) of them in the order they were         *)
(* appended.                                                               *)
(***************************************************************************)
C4_History ==
    \A i \in DOMAIN histories :
        LET N == Len(appended[i])
            n == IF N < 40 THEN N ELSE 40
        IN  /\ Len(histories[i]) <= 40
            /\ histories[i] = [k \in 1 .. n |-> appended[i][N - n + k]]

C4_Witness ==
    \E i \in DOMAIN histories :
        /\ Len(appended[i]) > 40
        /\ appended[i][1] # appended[i][2]
        /\ Len(histories[i]) = 40

(***************************************************************************)
(* C5: on every tick the compact layout is chosen exactly when the height  *)
(* read on that tick is below 4 * (watched devices) + 3, whatever the      *)
(* tick before chose.  Checked where the tick has rendered and the height  *)
(* it read is still the terminal's.                                        *)
(***************************************************************************)
IsCompactRow(row) == "code" \in DOMAIN row

C5_Layout ==
    pc = "sleep" =>
        /\ compact_mode <=> (term_height < Len(gpu_indices) * 4 + 3)
        /\ Len(frame) = Len(gpu_indices)
        /\ \A k \in 1 .. Len(frame) : IsCompactRow(frame[k]) <=> compact_mode

C5_Witness ==
    /\ pc = "sleep"
    /\ rendered = 2
    /\ Len(gpu_indices) = 2
    /\ term_height = 11
    /\ ~compact_mode

(***************************************************************************)
(* C6: with a set of indices given by gpus, every name query, sample,      *)
(* history, log record, rendered row and summary re-sample is for an index *)
(* of that set; no other device is queried.                                *)
(***************************************************************************)
GivenIndices ==
    CASE args.gpus = << "0", "2" >> -> {0, 2}
      [] args.gpus = << "1", "" >> -> {1}
      [] args.gpus = << "0", "7" >> -> {0, 7}
      [] args.gpus = << "0", "0" >> -> {0}
      [] args.gpus = << "all" >> -> Devices

C6_OnlyWatched ==
    /\ queried \subseteq GivenIndices
    /\ gpu_names \subseteq GivenIndices
    /\ DOMAIN histories \subseteq GivenIndices
    /\ DOMAIN per_gpu \subseteq GivenIndices
    /\ \A r \in Records : r.gpu \in GivenIndices
    /\ \A k \in 1 .. Len(frame) : frame[k].gpu \in GivenIndices
    /\ \A k \in 1 .. Len(summary_tried) : summary_tried[k].gpu \in GivenIndices
    /\ \A k \in 1 .. Len(summary) : summary[k].gpu \in GivenIndices

C6_Witness ==
    /\ args.gpus = << "0", "2" >>
    /\ pc = "exited"
    /\ queried = {0, 2}
    /\ DOMAIN histories = {0, 2}
    /\ Len(csv_log) = 4
    /\ Len(summary) = 2

(***************************************************************************)
(* C7: a run that ends by the deadline or by an interrupt exits with       *)
(* status 0, and only after the summary; a startup that cannot obtain the  *)
(* device count exits with a non-zero status and never enters the loop.    *)
(* As stated it fails for an interrupt that arrives while the monitor is   *)
(* constructed, before the SIGINT handler is installed: main() catches     *)
(* KeyboardInterrupt and returns, status 0, no summary.                    *)
(***************************************************************************)
SummaryPrinted ==
    Len(shutdown_log) > 0 /\ Last(shutdown_log) = "summary"

StopDue ==
    \/ stop_flag
    \/ args.duration > 0 /\ clock >= start_time + args.duration

C8_AsStated ==
    [][(loop_state = "RUNNING" /\ loop_state' # "RUNNING") => StopDue]_vars

\* C8 as amended: an error raised inside a tick is the third way out.
C8_Order ==
    [][ /\ loop_state = "RUNNING" => loop_state' \in {"RUNNING", "STOPPING"}
        /\ loop_state = "STOPPING" => loop_state' \in {"STOPPING", "TERMINATED"}
        /\ loop_state = "TERMINATED" => loop_state' = "TERMINATED"
        /\ loop_state' = "STOPPING" => loop_state \in {"RUNNING", "STOPPING"} ]_vars

C8_Leaves ==
    [][ /\ (loop_state = "RUNNING" /\ loop_state' # "RUNNING")
            => (StopDue \/ exc' # "none")
        /\ (pc = "loop" /\ pc' # "loop" /\ StopDue)
            => loop_state' = "STOPPING" ]_vars

C8_Terminates ==
    (loop_state = "RUNNING" /\ StopDue) ~> (loop_state = "TERMINATED")

C8_Lifecycle == C8_Order /\ C8_Leaves /\ C8_Terminates

C8_Witness ==
    /\ loop_state = "TERMINATED"
    /\ leave = "deadline"
    /\ ~stop_flag
    /\ clock = start_time + args.duration

(***************************************************************************)
(* C9: on every way out of the loop the summary is attempted: each watched *)
(* device is re-sampled once, and a re-sample that fails skips only that   *)
(* device's block; the devices after it are still re-sampled and reported. *)
(***************************************************************************)
RECURSIVE ReportedOf(_)
ReportedOf(tried) ==
    IF tried = << >> THEN << >>
    ELSE (IF Head(tried).ok THEN << Head(tried).gpu >> ELSE << >>)
         \o ReportedOf(Tail(tried))

CleanDeadlineRun ==
    /\ pc = "exited"
    /\ args.duration > 0
    /\ args.interval > 0
    /\ leave = "deadline"
    /\ ~stop_flag

Within1(n, m) == n - m \in {-1, 0, 1}

C10_AsStated ==
    CleanDeadlineRun
        => Within1(Len(csv_log), args.duration \div args.interval)

\* C10 as amended: with --csv, the records are one per entry of the watch
\* list for each of T ticks, T within 1 of floor(D / I).
C10_RecordCount ==
    (CleanDeadlineRun /\ args.csv)
        => \E T \in 0 .. Len(csv_log) :
              /\ Within1(T, args.duration \div args.interval)
              /\ Len(csv_log) = T * Len(gpu_indices)
              /\ T = ticks

C10_Witness ==
    /\ CleanDeadlineRun
    /\ args.csv
    /\ args.duration = 3
    /\ args.interval = 2
    /\ Len(gpu_indices) = 2
    /\ Len(csv_log) = 4

(***************************************************************************)
(* C11: within a tick a sample that fails for one device does not abort    *)
(* the tick: every watched device after the failing one is still sampled,  *)
(* appended to its history and logged in that tick, and the renderer is    *)
(* still invoked for that tick.                                            *)
(* The tick is aborted: the exception leaves the for loop of               *)
(* update_display, the devices after the failing one are not sampled and   *)
(* the tick renders nothing.  In run's finally block idx still points at   *)
(* the entry whose sample failed.                                          *)
(***************************************************************************)
C11_FailureDoesNotAbortTick ==
    (exc = "SampleFailed" /\ pc = "cleanup") =>
        /\ \A k \in (idx + 1) .. Len(gpu_indices) :
              /\ gpu_indices[k] \in DOMAIN per_gpu
              /\ Len(appended[gpu_indices[k]]) >= ticks
        /\ rendered = ticks

(***************************************************************************)
(* C12: when a device's sample fails on a tick, the failed sample appends  *)
(* nothing to that device's history, writes no log record for it and       *)
(* renders no row for it: the step in which the sample fails changes no    *)
(* history, no record and no row, and the rest of that tick draws nothing  *)
(* (the screen is only cleared, by run's finally block).                   *)
(***************************************************************************)
C12_FailedSampleSkipped ==
    [][ /\ (pc = "sample" /\ exc' = "SampleFailed")
            => /\ histories' = histories
               /\ appended' = appended
               /\ csv_log' = csv_log
               /\ per_gpu' = per_gpu
               /\ frame' = frame
               /\ rendered' = rendered
        /\ exc = "SampleFailed"
            => /\ histories' = histories
               /\ csv_log' = csv_log
               /\ rendered' = rendered
               /\ frame' \in {frame, << >>} ]_vars

C12_Witness ==
    /\ exc = "SampleFailed"
    /\ pc = "cleanup"
    /\ args.gpus = << "0", "2" >>
    /\ csvf = "open"
    /\ ticks = 2
    /\ rendered = 1
    /\ idx = 2
    /\ 0 \in DOMAIN per_gpu
    /\ 2 \notin DOMAIN per_gpu
    /\ Len(appended[0]) = 2
    /\ Len(appended[2]) = 1
    /\ Len(csv_log) = 3
    /\ \A k \in 1 .. Len(csv_log) :
          csv_log[k].gpu = 2 => csv_log[k].timestamp # tick_now

(***************************************************************************)
(* C13: in compact layout a row carries at most one problem code, the      *)
(* first of PWR (0x0080), THM (0x0040), HOT (0x0020), CAP (0x0004) whose   *)
(* bit is set in the mask sampled on that tick; bits of lower priority add *)
(* nothing, and a mask with none of the four bits shows no code.           *)
(***************************************************************************)
CodeOrder == << "PWR", "THM", "HOT", "CAP" >>
CodeBits == << 128, 64, 32, 4 >>

CodeOf(m, code) ==
    IF \A k \in 1 .. 4 : ~HasBit(m, CodeBits[k])
    THEN code = ""
    ELSE \E k \in 1 .. 4 :
            /\ code = CodeOrder[k]
            /\ HasBit(m, CodeBits[k])
            /\ \A j \in 1 .. (k - 1) : ~HasBit(m, CodeBits[j])

C13_CompactCode ==
    (pc = "sleep" /\ compact_mode) =>
        \A k \in 1 .. Len(frame) :
            /\ IsCompactRow(frame[k])
            /\ CodeOf(per_gpu[frame[k].gpu].mask, frame[k].code)

C13_Witness ==
    /\ pc = "sleep"
    /\ compact_mode
    /\ Len(frame) = 1
    /\ per_gpu[frame[1].gpu].mask = 108
    /\ frame[1].code = "THM"

(***************************************************************************)
(* C14: in normal layout the colour of the status line is that of the      *)
(* worst severity among the diagnosis entries of the sampled mask: the     *)
(* critical colour with POWER LIMIT or OVERHEATING, the warning colour     *)
(* when the worst entry is HOT, CAPPED or THROTTLED, the OK colour for the *)
(* OK entry; every mask gets one of the three.                             *)
(* It fails for a mask whose only entry is THROTTLED (0x0008): the line    *)
(* is printed with no colour at all.                                       *)
(***************************************************************************)
SeverityColour(m) ==
    IF HasBit(m, 128) \/ HasBit(m, 64) THEN "RED"
    ELSE IF HasBit(m, 32) \/ HasBit(m, 4) \/ HasBit(m, 8) THEN "YELLOW"
    ELSE "GREEN"

C14_ColourBySeverity ==
    (pc = "sleep" /\ ~compact_mode) =>
        \A k \in 1 .. Len(frame) :
            /\ frame[k].colour \in {"RED", "YELLOW", "GREEN"}
            /\ frame[k].colour = SeverityColour(per_gpu[frame[k].gpu].mask)

(***************************************************************************)
(* C15: in the summary a device whose re-sample succeeds gets the single   *)
(* "no problems" line exactly when its final mask has no active problem,   *)
(* that is, when the diagnosis of that mask is the OK entry.               *)
(* It fails for a final mask of 0x0008 without 0x80, 0x40, 0x20, 0x04: the *)
(* diagnosis is THROTTLED and the summary says "No problems detected".     *)
(* The masks do not change once the summary has begun.                     *)
(***************************************************************************)
NoProblems == << "No problems detected" >>

C15_AffirmativeIffOk ==
    \A k \in 1 .. Len(summary) :
        LET m == hw_mask[summary[k].gpu]
        IN  (summary[k].lines = NoProblems)
                <=> (\A b \in 1 .. 5 : ~HasBit(m, DiagnosisBits[b]))

(***************************************************************************)
(* C16: in every tick in which all samples succeed, each watched device's  *)
(* history receives exactly one append, with logging enabled exactly one   *)
(* record is written for each watched device, and the renderer is invoked  *)
(* exactly once, after all devices of the tick have been sampled.  A tick  *)
(* has gone through when the loop sleeps; every tick before it has gone    *)
(* through as well, since a failure ends the run.                          *)
(* It fails when gpus names a device twice: the device is sampled once per *)
(* entry of the list, so its one history receives two appends and the log  *)
(* two records in each tick.                                               *)
(***************************************************************************)
TickRecords(i) ==
    { k \in 1 .. Len(csv_log) :
          csv_log[k].gpu = i /\ csv_log[k].timestamp = tick_now }

C16_OncePerDevice ==
    pc = "sleep" =>
        /\ \A i \in SeqSet(gpu_indices) :
              /\ Len(appended[i]) = ticks
              /\ csvf = "open" => Cardinality(TickRecords(i)) = 1
              /\ i \in DOMAIN per_gpu
        /\ rendered = ticks

AllButStopFlag ==
    << args, pc, use_nvml, nvml_open, gpu_count, gpu_indices, gpu_names,
       histories, csvf, csv_log, start_time, handler, cursor_visible,
       term_height, tick_now, per_gpu, idx, compact_mode, frame, summary,
       summary_tried, shutdown_log, exc, leave, exit_code, clock, hw_mask,
       hw_changes, queried, appended, ticks, rendered >>

C18_Cooperative ==
    [][ /\ stop_flag' # stop_flag
            => (stop_flag' = TRUE /\ UNCHANGED AllButStopFlag)
        /\ stop_flag => stop_flag'
        /\ (pc = "sample" /\ pc' # "sample")
            => \/ /\ pc' = "sleep"
                  /\ rendered' = rendered + 1
                  /\ DOMAIN per_gpu = SeqSet(gpu_indices)
                  /\ Len(frame') = Len(gpu_indices)
               \/ exc' \in {"SampleFailed", "LogWriteFailed"}
        /\ (stop_flag /\ pc = "loop" /\ pc' # "loop")
            => (pc' = "cleanup" /\ leave' = "stop")
        /\ stop_flag => ticks' = ticks ]_vars

\* The flag is set while the second tick is under way (the tick would not
\* have begun with the flag set), and the tick has gone on to sample both
\* devices.
C18_Witness ==
    /\ pc = "sample"
    /\ stop_flag
    /\ exc = "none"
    /\ ticks = 2
    /\ rendered = 1
    /\ Len(gpu_indices) = 2
    /\ idx = 3
    /\ DOMAIN per_gpu = {0, 2}
    /\ Len(appended[2]) = 2

(***************************************************************************)
(* C19: during shutdown the steps come in the fixed order show cursor,     *)
(* clear screen, close the log file (when there is one), close the metrics *)
(* backend, then the summary; so every re-sample of the summary is issued  *)
(* after backend.close() has been called, none on a backend not yet        *)
(* closed.                                                                 *)
(***************************************************************************)
CleanupSteps ==
    << "show_cursor", "clear_screen" >>
    \o (IF csvf = "none" THEN << >> ELSE << "csv_close" >>)
    \o << "backend_close" >>

C19_ShutdownOrder ==
    /\ pc = "summary" => shutdown_log = CleanupSteps
    /\ (pc = "exited" /\ leave # "none")
          => shutdown_log = CleanupSteps \o << "summary" >>
    /\ (pc \notin {"summary", "exited"} \/ leave = "none")
          => (shutdown_log = << >> /\ summary_tried = << >>)
    /\ summary_tried # << >>
          => /\ \E k \in 1 .. Len(shutdown_log) : shutdown_log[k] = "backend_close"
             /\ ~nvml_open
             /\ csvf # "open"
             /\ cursor_visible
             /\ frame = << >>

C19_Witness ==
    /\ pc = "exited"
    /\ use_nvml
    /\ ticks = 2
    /\ shutdown_log = << "show_cursor", "clear_screen", "csv_close",
                         "backend_close", "summary" >>
    /\ Len(summary_tried) = 2
    /\ \A k \in 1 .. 2 : ~summary_tried[k].ok
    /\ summary = << >>

(***************************************************************************)
(* C20: once the loop has left RUNNING no history is changed and no log    *)
(* record is written for the rest of the run: the re-samples of the        *)
(* summary neither append to a history nor write to the log, and nothing   *)
(* is written to the log once the file is closed.                          *)
(***************************************************************************)
C20_FrozenAfterLoop ==
    [][ /\ loop_state \in {"STOPPING", "TERMINATED"}
            => /\ histories' = histories
               /\ appended' = appended
               /\ csv_log' = csv_log
        /\ summary_tried' # summary_tried
            => /\ histories' = histories
               /\ appended' = appended
               /\ csv_log' = csv_log
        /\ csvf = "closed" => csv_log' = csv_log
        /\ csv_log' # csv_log => csvf' = "open" ]_vars

C20_Witness ==
    /\ pc = "exited"
    /\ leave = "deadline"
    /\ csvf = "closed"
    /\ ticks = 2
    /\ Len(summary) = 2
    /\ Len(csv_log) = 4
    /\ \A i \in DOMAIN histories :
          Len(histories[i]) = 2 /\ histories[i] = appended[i]

====
